---- MODULE Spec2Model ----
(***************************************************************************)
(* Model of the Tythe time tracker: the shift pay-rate splitter            *)
(* (export_functions.split_shift_by_rate), the TimeEntry validator, the    *)
(* fixed-offset time conversion (TimeUtils), the TimeTrackingService       *)
(* operations over the time_entries table, one request at a time and with  *)
(* two concurrent sessions, the summaries of export_functions and the      *)
(* addition of TimeSplits.                                                 *)
(*                                                                         *)
(* Time is counted in ticks; one hour is TicksPerHour ticks.  A datetime   *)
(* is the number of ticks since midnight of day 0 on its own clock.  Hour  *)
(* quantities returned by split_shift_by_rate are floats rounded to 2      *)
(* decimals; they are modelled as integers counting hundredths of an hour  *)
(* and turned into binary floats where the program adds them up.           *)
(* An Optional[datetime] is a sequence of length 0 (None) or 1.            *)
(***************************************************************************)
EXTENDS Integers, Sequences, FiniteSets, TLC

VARIABLES
    arg,      \* inputs of the pure function under check
    val,      \* value it returned (<<>> before the call)
    pc,       \* position of the pure-function harness
    store,    \* rows of the time_entries table: id -> row
    nextId,   \* next primary key the database will generate
    now,      \* the wall clock read by datetime.now(timezone.utc)
    ret       \* outcome of the last service operation

vars == <<arg, val, pc, store, nextId, now, ret>>

----------------------------------------------------------------------------
(* Bounds of the model *)

TicksPerHour == 3
MaxStartHours == 30
MaxTimeHours == 72
MaxNameLen == 2

----------------------------------------------------------------------------
(* Time arithmetic *)

None == <<>>
Some(x) == <<x>>

Hours(h) == h * TicksPerHour
TicksPerDay == Hours(24)

\* datetime.hour and datetime.date() of a tick count
hour(dt) == (dt \div TicksPerHour) % 24
date(dt) == dt \div TicksPerDay

\* datetime.combine(date, dtime(h, 0))
combine(d, h) == d * TicksPerDay + Hours(h)

max(a, b) == IF a >= b THEN a ELSE b
min(a, b) == IF a <= b THEN a ELSE b
Abs(x) == IF x >= 0 THEN x ELSE 0 - x

\* round(n / d, 0) as Python rounds: to nearest, ties to even
RoundHalfEven(n, d) ==
    LET q == n \div d
        r == n % d
    IN  IF 2 * r < d THEN q
        ELSE IF 2 * r > d THEN q + 1
        ELSE IF q % 2 = 0 THEN q ELSE q + 1

\* round(ticks.total_seconds() / 3600, 2), in hundredths of an hour
round2(ticks) == RoundHalfEven(ticks * 100, TicksPerHour)

----------------------------------------------------------------------------
(* export_functions.py *)

get_bst_time(utc_time) == utc_time + Hours(1)

is_bst_enhanced_hours(dt) == hour(dt) >= 19 \/ hour(dt) < 4

ZeroSplit == [Standard |-> 0, Enhanced |-> 0, Supervisor |-> 0]

\* the supervisor branch crediting the total to the Standard bucket
supervisor_split_as_standard(clock_in, clock_out) ==
    [Standard |-> round2(clock_out - clock_in), Enhanced |-> 0, Supervisor |-> 0]

supervisor_split(clock_in, clock_out) ==
    [Standard |-> 0, Enhanced |-> 0, Supervisor |-> round2(clock_out - clock_in)]

\* the window always anchored on the start's own calendar day
enhanced_start_same_day(bst_in) == combine(date(bst_in), 19)

enhanced_start(bst_in) ==
    IF hour(bst_in) < 4
    THEN combine(date(bst_in) - 1, 19)
    ELSE combine(date(bst_in), 19)

\* the window always closed on the day after the start's calendar day
enhanced_end_next_day(bst_in) == combine(date(bst_in) + 1, 4)

enhanced_end(bst_in) ==
    IF hour(bst_in) < 4
    THEN combine(date(bst_in), 4)
    ELSE combine(date(bst_in) + 1, 4)

\* the overlap taken from the window's start, not clamped to the shift's start
enhanced_ticks_from_window_start(bst_in, bst_out) ==
    LET enh_start == enhanced_start(bst_in)
        enh_end == min(bst_out, enhanced_end(bst_in))
    IN  IF enh_start < enh_end THEN max(enh_end - enh_start, 0) ELSE 0

\* overlap of [bst_in, bst_out] with the anchored window, in ticks
enhanced_ticks(bst_in, bst_out) ==
    LET enh_start == max(bst_in, enhanced_start(bst_in))
        enh_end == min(bst_out, enhanced_end(bst_in))
    IN  IF enh_start < enh_end THEN max(enh_end - enh_start, 0) ELSE 0

\* standard hours taken as the whole duration, the enhanced part not removed
rate_split_no_remainder(bst_in, bst_out) ==
    [Standard |-> round2(bst_out - bst_in),
     Enhanced |-> round2(enhanced_ticks(bst_in, bst_out)),
     Supervisor |-> 0]

rate_split(bst_in, bst_out) ==
    LET enhanced_hours == enhanced_ticks(bst_in, bst_out)
        total_hours == bst_out - bst_in
        standard_hours == total_hours - enhanced_hours
    IN  [Standard |-> round2(standard_hours),
         Enhanced |-> round2(enhanced_hours),
         Supervisor |-> 0]

\* an open shift estimated up to the end of its first hour instead of zero
split_shift_by_rate_open_estimated(clock_in, clock_out, is_supervisor) ==
    IF clock_out = None
    THEN IF is_supervisor
         THEN supervisor_split(clock_in, clock_in + Hours(1))
         ELSE rate_split(get_bst_time(clock_in), get_bst_time(clock_in) + Hours(1))
    ELSE IF is_supervisor THEN supervisor_split(clock_in, clock_out[1])
    ELSE IF get_bst_time(clock_out[1]) <= get_bst_time(clock_in) THEN ZeroSplit
    ELSE rate_split(get_bst_time(clock_in), get_bst_time(clock_out[1]))

split_shift_by_rate(clock_in, clock_out, is_supervisor) ==
    IF clock_out = None THEN ZeroSplit
    ELSE IF is_supervisor THEN supervisor_split(clock_in, clock_out[1])
    ELSE LET bst_in == get_bst_time(clock_in)
             bst_out == get_bst_time(clock_out[1])
         IN  IF bst_out <= bst_in THEN ZeroSplit
             ELSE rate_split(bst_in, bst_out)

----------------------------------------------------------------------------
(* Checking split_shift_by_rate on every shift of the bounded horizon *)

StartTimes == 0 .. Hours(MaxStartHours)
EndTimes == 0 .. Hours(MaxTimeHours)

InitSplit ==
    /\ arg \in [clock_in : StartTimes,
                clock_out : {None} \cup {Some(t) : t \in EndTimes},
                is_supervisor : BOOLEAN]
    /\ val = None
    /\ pc = "call"
    /\ store = << >>
    /\ nextId = 1
    /\ now = 0
    /\ ret = None

CallSplit ==
    /\ pc = "call"
    /\ val' = Some(split_shift_by_rate(arg.clock_in, arg.clock_out, arg.is_supervisor))
    /\ pc' = "done"
    /\ UNCHANGED <<arg, store, nextId, now, ret>>

NextSplit == CallSplit

SpecSplit == InitSplit /\ [][NextSplit]_vars

----------------------------------------------------------------------------
(* Properties of split_shift_by_rate *)

Returned == pc = "done"
IsClosed == arg.clock_out # None
ArgIn == arg.clock_in
ArgOut == arg.clock_out[1]
Split == val[1]
LocalIn == ArgIn + Hours(1)
LocalOut == ArgOut + Hours(1)

\* ticks of [t1, t2) during which the local clock's hour is >= 19 or < 4
TimeInEnhancedHours(t1, t2) ==
    Cardinality({u \in t1 .. (t2 - 1) : hour(u + Hours(1)) >= 19 \/ hour(u + Hours(1)) < 4})

\* C1: for a closed non-supervisor shift with clock-out after clock-in,
\* Standard + Enhanced equals the elapsed hours to within 0.01 and
\* Supervisor is 0.
C1_Conservation ==
    (Returned /\ IsClosed /\ ~arg.is_supervisor /\ ArgOut > ArgIn) =>
        /\ Abs((Split.Standard + Split.Enhanced) * TicksPerHour
               - 100 * (ArgOut - ArgIn)) <= TicksPerHour
        /\ Split.Supervisor = 0

C1_Witness ==
    /\ Returned /\ IsClosed /\ ~arg.is_supervisor /\ ArgOut > ArgIn
    /\ Split.Standard > 0 /\ Split.Enhanced > 0
    /\ (Split.Standard + Split.Enhanced) * TicksPerHour # 100 * (ArgOut - ArgIn)

\* C2: for a closed non-supervisor shift of at most 24 hours, Enhanced is
\* the time of the shift at local hours >= 19 or < 4 and Standard is the
\* rest, for every local start time.
C2_EnhancedIsTimeInWindow ==
    (Returned /\ IsClosed /\ ~arg.is_supervisor
        /\ ArgOut > ArgIn /\ ArgOut - ArgIn <= Hours(24)) =>
        /\ Split.Enhanced = round2(TimeInEnhancedHours(ArgIn, ArgOut))
        /\ Split.Standard =
             round2((ArgOut - ArgIn) - TimeInEnhancedHours(ArgIn, ArgOut))

\* C3: a closed supervisor shift with clock-out after clock-in gets
\* Standard = 0, Enhanced = 0 and Supervisor = the elapsed hours rounded to
\* 2 decimals, whatever the time of day.
C3_SupervisorExclusive ==
    (Returned /\ IsClosed /\ arg.is_supervisor /\ ArgOut > ArgIn) =>
        Split = [Standard |-> 0, Enhanced |-> 0,
                 Supervisor |-> round2(ArgOut - ArgIn)]

C3_Witness ==
    /\ Returned /\ IsClosed /\ arg.is_supervisor /\ ArgOut > ArgIn
    /\ hour(LocalIn) >= 19 /\ hour(LocalOut) < 4
    /\ Split.Supervisor > 0

\* C4: an open shift (clock-out absent) splits to zero in every bucket, for
\* every clock-in and both values of the supervisor flag.
C4_OpenShiftZero ==
    (Returned /\ ~IsClosed) => Split = ZeroSplit

C4_Witness ==
    Returned /\ ~IsClosed /\ arg.is_supervisor /\ Split = ZeroSplit

\* C5: a clock-out that is present and not strictly after the clock-in gives
\* the zero split, for both values of the supervisor flag.
C5_InvalidIntervalZero ==
    (Returned /\ IsClosed /\ ArgOut <= ArgIn) => Split = ZeroSplit

\* C6: for every input, each of Standard, Enhanced and Supervisor is
\* non-negative.
C6_NonNegative ==
    Returned => (Split.Standard >= 0 /\ Split.Enhanced >= 0 /\ Split.Supervisor >= 0)

\* C7: the enhanced window is half-open [19:00, 04:00) local: a
\* non-supervisor shift inside local [04:00, 19:00] of one day gets
\* Enhanced = 0; one inside local [19:00, 04:00 next day] gets Standard = 0
\* and Enhanced = its full duration.
C7_HalfOpenWindow ==
    (Returned /\ IsClosed /\ ~arg.is_supervisor /\ ArgOut > ArgIn) =>
        /\ (\E d \in 0 .. (MaxTimeHours \div 24 + 1) :
                combine(d, 4) <= LocalIn /\ LocalOut <= combine(d, 19))
              => Split.Enhanced = 0
        /\ (\E d \in (0 - 1) .. (MaxTimeHours \div 24 + 1) :
                combine(d, 19) <= LocalIn /\ LocalOut <= combine(d + 1, 4))
              => (Split.Standard = 0 /\ Split.Enhanced = round2(ArgOut - ArgIn))

C7_Witness ==
    /\ Returned /\ IsClosed /\ ~arg.is_supervisor
    /\ LocalIn = combine(0, 19) /\ LocalOut = combine(1, 4)
    /\ Split.Standard = 0 /\ Split.Enhanced = 900

----------------------------------------------------------------------------
(* Employee names: strings over a small alphabet, as sequences of characters *)

Chars == {" ", "a", "A", "b"}
Strings == UNION {[1 .. n -> Chars] : n \in 0 .. MaxNameLen}

RECURSIVE lstrip(_)
lstrip(s) == IF s # << >> /\ Head(s) = " " THEN lstrip(Tail(s)) ELSE s

RECURSIVE rstrip(_)
rstrip(s) ==
    IF s # << >> /\ s[Len(s)] = " " THEN rstrip(SubSeq(s, 1, Len(s) - 1)) ELSE s

\* str.strip()
strip(s) == rstrip(lstrip(s))

\* str.lower() and SQL LOWER()
lower(s) == [i \in DOMAIN s |-> IF s[i] = "A" THEN "a" ELSE s[i]]

----------------------------------------------------------------------------
(* core/models.py: TimeEntry *)

EmptyNameError == "Employee name cannot be empty"
InvalidIntervalError == "Clock out time must be after clock in time"
Ok == "ok"

\* the interval check accepting a clock-out equal to the clock-in
TimeEntry_post_init_equal_accepted(employee, clock_in, clock_out) ==
    IF strip(employee) = << >> THEN EmptyNameError
    ELSE IF clock_out # None /\ clock_out[1] < clock_in THEN InvalidIntervalError
    ELSE Ok

\* TimeEntry.__post_init__: the error raised, or Ok when the entry is built
TimeEntry_post_init(employee, clock_in, clock_out) ==
    IF strip(employee) = << >> THEN EmptyNameError
    ELSE IF clock_out # None /\ clock_out[1] <= clock_in THEN InvalidIntervalError
    ELSE Ok

MaxEntryTime == 3
EntryTimes == 0 .. MaxEntryTime

InitEntry ==
    /\ arg \in [employee : Strings,
                clock_in : EntryTimes,
                clock_out : {None} \cup {Some(t) : t \in EntryTimes}]
    /\ val = None
    /\ pc = "call"
    /\ store = << >>
    /\ nextId = 1
    /\ now = 0
    /\ ret = None

NewTimeEntry ==
    /\ pc = "call"
    /\ val' = Some(TimeEntry_post_init(arg.employee, arg.clock_in, arg.clock_out))
    /\ pc' = "done"
    /\ UNCHANGED <<arg, store, nextId, now, ret>>

NextEntry == NewTimeEntry

SpecEntry == InitEntry /\ [][NextEntry]_vars

\* C8 as stated: construction fails with the empty-name error exactly when
\* the trimmed name is empty, with the invalid-interval error exactly when
\* the clock-out is present and not strictly after the clock-in, and
\* succeeds otherwise.
C8_ValidationAsStated ==
    Returned =>
        /\ (val[1] = EmptyNameError) <=> (strip(arg.employee) = << >>)
        /\ (val[1] = InvalidIntervalError) <=> (IsClosed /\ ArgOut <= ArgIn)
        /\ (val[1] = Ok) <=>
              (strip(arg.employee) # << >> /\ (~IsClosed \/ ArgOut > ArgIn))

\* C8: construction fails with the empty-name error exactly when the trimmed
\* name is empty; with the invalid-interval error exactly when the trimmed
\* name is not empty and the clock-out is present and not strictly after the
\* clock-in (equal counts as invalid); and succeeds otherwise, an absent
\* clock-out being accepted.
C8_Validation ==
    Returned =>
        /\ (val[1] = EmptyNameError) <=> (strip(arg.employee) = << >>)
        /\ (val[1] = InvalidIntervalError) <=>
              (strip(arg.employee) # << >> /\ IsClosed /\ ArgOut <= ArgIn)
        /\ (val[1] = Ok) <=>
              (strip(arg.employee) # << >> /\ (~IsClosed \/ ArgOut > ArgIn))

C8_Witness ==
    /\ Returned /\ arg.employee = <<" ", "a">>
    /\ IsClosed /\ ArgOut = ArgIn
    /\ val[1] = InvalidIntervalError

----------------------------------------------------------------------------
(* utils/time_utils.py: TimeUtils.  A datetime is its wall-clock reading and
   its tzinfo: None (naive) or the zone's offset from UTC in ticks. *)

BST_OFFSET_HOURS == 1

UTC == Some(0)

\* the point in time an aware datetime denotes
instant(dt) == dt.wall - dt.tzinfo[1]

\* datetime.astimezone(timezone.utc)
astimezone_utc(dt) == [wall |-> instant(dt), tzinfo |-> UTC]

convert_to_bst(utc_time) ==
    LET aware == IF utc_time.tzinfo = None
                 THEN [utc_time EXCEPT !.tzinfo = UTC]
                 ELSE utc_time
    IN  [aware EXCEPT !.wall = @ + Hours(BST_OFFSET_HOURS)]

convert_to_utc(local_time) ==
    LET aware == IF local_time.tzinfo = None
                 THEN [local_time EXCEPT !.tzinfo = UTC]
                 ELSE local_time
    IN  astimezone_utc(aware)

MaxConvHours == 3
DateTimes == [wall : 0 .. Hours(MaxConvHours), tzinfo : {None, UTC}]

InitConv ==
    /\ arg \in [t1 : DateTimes, t2 : DateTimes]
    /\ val = None
    /\ pc = "call"
    /\ store = << >>
    /\ nextId = 1
    /\ now = 0
    /\ ret = None

ConvertToBst ==
    /\ pc = "call"
    /\ val' = Some([bst1 |-> convert_to_bst(arg.t1), bst2 |-> convert_to_bst(arg.t2)])
    /\ pc' = "bst"
    /\ UNCHANGED <<arg, store, nextId, now, ret>>

ConvertToUtc ==
    /\ pc = "bst"
    /\ val' = Some([bst1 |-> val[1].bst1, bst2 |-> val[1].bst2,
                    back1 |-> convert_to_utc(val[1].bst1)])
    /\ pc' = "done"
    /\ UNCHANGED <<arg, store, nextId, now, ret>>

NextConv == ConvertToBst \/ ConvertToUtc

SpecConv == InitConv /\ [][NextConv]_vars

\* the instant an input denotes, a naive input being read as UTC
InstantOf(dt) == IF dt.tzinfo = None THEN dt.wall ELSE instant(dt)

\* C10: the local-time conversion is invertible and order preserving:
\* convert_to_utc(convert_to_bst(t)) = t for every instant t, and t1 < t2
\* implies convert_to_bst(t1) < convert_to_bst(t2).
C10_InvertibleOrderPreserving ==
    Returned =>
        /\ instant(val[1].back1) = InstantOf(arg.t1)
        /\ (InstantOf(arg.t1) < InstantOf(arg.t2)) =>
              (instant(val[1].bst1) < instant(val[1].bst2))

----------------------------------------------------------------------------
(* utils/time_utils.py: TimeUtils.is_enhanced_hours *)

ENHANCED_START_HOUR == 19
ENHANCED_END_HOUR == 4

\* the hour test made on the UTC reading, without the conversion to BST
is_enhanced_hours_utc_hour(clock_in_time) ==
    LET h == hour(clock_in_time.wall)
    IN  h >= ENHANCED_START_HOUR \/ h < ENHANCED_END_HOUR

is_enhanced_hours(clock_in_time) ==
    LET aware_time == IF clock_in_time.tzinfo = None
                      THEN [clock_in_time EXCEPT !.tzinfo = UTC]
                      ELSE clock_in_time
        bst_time == convert_to_bst(aware_time)
        h == hour(bst_time.wall)
    IN  h >= ENHANCED_START_HOUR \/ h < ENHANCED_END_HOUR

MaxEnhancedHours == 48
EnhancedDateTimes == [wall : 0 .. Hours(MaxEnhancedHours), tzinfo : {None, UTC}]

InitEnhanced ==
    /\ arg \in [t : EnhancedDateTimes]
    /\ val = None
    /\ pc = "call"
    /\ store = << >>
    /\ nextId = 1
    /\ now = 0
    /\ ret = None

IsEnhancedHours ==
    /\ pc = "call"
    /\ val' = Some(is_enhanced_hours(arg.t))
    /\ pc' = "done"
    /\ UNCHANGED <<arg, store, nextId, now, ret>>

NextEnhanced == IsEnhancedHours

SpecEnhanced == InitEnhanced /\ [][NextEnhanced]_vars

\* the local (reference + 1 hour) reading of the instant given
LocalOfArg == InstantOf(arg.t) + Hours(1)

\* C11: is_enhanced_hours(t) is true exactly when the hour-of-day h of
\* t + 1 hour satisfies h >= 19 or h < 4; it is true at local 19:00 and at
\* the last local tick before 04:00, false at local 04:00 and at the last
\* local tick before 19:00.
C11_EnhancedHours ==
    Returned =>
        /\ val[1] <=> (hour(LocalOfArg) >= 19 \/ hour(LocalOfArg) < 4)
        /\ \A d \in 0 .. 2 :
            /\ LocalOfArg = combine(d, 19) => val[1]
            /\ LocalOfArg = combine(d, 4) - 1 => val[1]
            /\ LocalOfArg = combine(d, 4) => ~val[1]
            /\ LocalOfArg = combine(d, 19) - 1 => ~val[1]

C11_Witness ==
    /\ Returned
    /\ LocalOfArg = combine(0, 19)
    /\ arg.t.tzinfo = None
    /\ val[1]

----------------------------------------------------------------------------
(* core/services.py and database/repository.py: the service over the
   time_entries table.  A row is [employee, clock_in, clock_out,
   pay_rate_type]; instants are ticks of UTC. *)

MaxIds == 2
MaxClockSteps == 2
MaxEnteredSteps == 1
ClockStepHours == 9

\* values of the wall clock, and the times a manager enters for a shift
ClockTimes == {k * Hours(ClockStepHours) : k \in 0 .. MaxClockSteps}
EnteredTimes == {k * Hours(ClockStepHours) : k \in 0 .. MaxEnteredSteps}
OptEnteredTimes == {None} \cup {Some(t) : t \in EnteredTimes}
ServiceNames == {<<"a">>, <<"A", " ">>, <<"b">>, <<" ">>}
PayRateType == {"Standard", "Enhanced", "Supervisor"}
Ids == 1 .. MaxIds

aware(t) == [wall |-> t, tzinfo |-> UTC]
naive(t) == [wall |-> t, tzinfo |-> None]

\* ClockInRequest / ClockOutRequest __post_init__
NameRequest_post_init(employee_name) ==
    IF strip(employee_name) = << >> THEN EmptyNameError ELSE Ok

\* ShiftRequest.__post_init__ on the combined naive datetimes
ShiftRequest_post_init(employee_name, clock_in, clock_out) ==
    IF strip(employee_name) = << >> THEN EmptyNameError
    ELSE IF clock_out # None /\ clock_out[1] <= clock_in THEN InvalidIntervalError
    ELSE Ok

\* the time of day tested before the supervisor flag
determine_pay_rate_type_time_first(is_supervisor, clock_in_time) ==
    LET h == hour(convert_to_bst(aware(clock_in_time)).wall)
    IN  IF h >= 19 \/ h < 4 THEN "Enhanced"
        ELSE IF is_supervisor THEN "Supervisor" ELSE "Standard"

\* TimeTrackingService._determine_pay_rate_type
determine_pay_rate_type(is_supervisor, clock_in_time) ==
    IF is_supervisor THEN "Supervisor"
    ELSE LET h == hour(convert_to_bst(aware(clock_in_time)).wall)
         IN  IF h >= 19 \/ h < 4 THEN "Enhanced" ELSE "Standard"

\* the stored instant of a wall-clock time entered by a manager
entered_to_utc(t) == instant(convert_to_utc(naive(t)))

\* a transaction that commits what it wrote even when its body raised
get_cursor_commit_always(before, written, raised) == written

\* DatabaseConnection.get_cursor: commit when the body returns, roll back
\* when it raises
get_cursor(before, written, raised) == IF raised THEN before ELSE written

\* TimeEntryRepository._row_to_time_entry: does building the entry raise
row_raises(row) ==
    TimeEntry_post_init(row.employee, row.clock_in, row.clock_out) # Ok

\* the query matching the stored name exactly, case included
open_rows_exact(st, employee) ==
    {i \in DOMAIN st : /\ st[i].employee = strip(employee)
                       /\ st[i].clock_out = None}

\* rows the query of get_open_shift matches
open_rows(st, employee) ==
    {i \in DOMAIN st : /\ lower(st[i].employee) = lower(strip(employee))
                       /\ st[i].clock_out = None}

\* the open row with the earliest clock-in returned
get_open_shift_earliest(st, employee) ==
    {i \in open_rows(st, employee) :
        \A j \in open_rows(st, employee) : st[j].clock_in >= st[i].clock_in}

\* ORDER BY clock_in DESC LIMIT 1: any row with the latest clock-in
get_open_shift(st, employee) ==
    {i \in open_rows(st, employee) :
        \A j \in open_rows(st, employee) : st[j].clock_in <= st[i].clock_in}

put(st, id, row) == [i \in DOMAIN st \cup {id} |-> IF i = id THEN row ELSE st[i]]
remove(st, id) == [i \in DOMAIN st \ {id} |-> st[i]]

\* a statement writing `row` under `id` inside get_cursor, the returned row
\* then being built into a TimeEntry: the table afterwards and whether the
\* call raised
execute(st, id, row) ==
    [store |-> get_cursor(st, put(st, id, row), row_raises(row)),
     raised |-> row_raises(row)]

\* TimeEntryRepository.create_time_entry: the table afterwards and whether
\* the call raised
create_time_entry(st, id, employee, clock_in, pay_rate_type, clock_out) ==
    IF strip(employee) = << >> THEN [store |-> st, raised |-> TRUE]
    ELSE execute(st, id, [employee |-> strip(employee), clock_in |-> clock_in,
                          clock_out |-> clock_out, pay_rate_type |-> pay_rate_type])

\* the UPDATE of close_shift committed as soon as it is issued, so that a
\* failure while building the returned TimeEntry no longer undoes it
close_shift_autocommit(st, entry_id, clock_out) ==
    IF entry_id \notin DOMAIN st THEN [store |-> st, raised |-> TRUE]
    ELSE [store |-> put(st, entry_id, [st[entry_id] EXCEPT !.clock_out = Some(clock_out)]),
          raised |-> row_raises([st[entry_id] EXCEPT !.clock_out = Some(clock_out)])]

\* TimeEntryRepository.close_shift
close_shift(st, entry_id, clock_out) ==
    IF entry_id \notin DOMAIN st THEN [store |-> st, raised |-> TRUE]
    ELSE execute(st, entry_id, [st[entry_id] EXCEPT !.clock_out = Some(clock_out)])

\* TimeEntryRepository.update_time_entry
update_time_entry(st, entry_id, employee, clock_in, clock_out, pay_rate_type) ==
    IF entry_id \notin DOMAIN st THEN [store |-> st, raised |-> TRUE]
    ELSE execute(st, entry_id,
                 [employee |-> strip(employee), clock_in |-> clock_in,
                  clock_out |-> clock_out, pay_rate_type |-> pay_rate_type])

\* TimeEntryRepository.delete_time_entry: the table afterwards and rowcount > 0
delete_time_entry(st, entry_id) ==
    IF entry_id \in DOMAIN st
    THEN [store |-> remove(st, entry_id), deleted |-> TRUE]
    ELSE [store |-> st, deleted |-> FALSE]

Result(op, success, msg) == Some([op |-> op, raised |-> FALSE, success |-> success, msg |-> msg])
Raised(op, msg) == Some([op |-> op, raised |-> TRUE, success |-> FALSE, msg |-> msg])

Init ==
    /\ arg = None
    /\ val = None
    /\ pc = "idle"
    /\ store = << >>
    /\ nextId = 1
    /\ now = 0
    /\ ret = None

\* the wall clock moves on between two operations
Tick ==
    /\ now + Hours(ClockStepHours) \in ClockTimes
    /\ now' = now + Hours(ClockStepHours)
    /\ UNCHANGED <<arg, val, pc, store, nextId, ret>>

\* TimeTrackingService.clock_in
clock_in_with_request(employee_name, is_supervisor) ==
    /\ nextId \in Ids
    /\ IF NameRequest_post_init(employee_name) # Ok
       THEN /\ ret' = Raised("clock_in", EmptyNameError)
            /\ UNCHANGED <<store, nextId>>
       ELSE \E existing \in {get_open_shift(store, employee_name)} :
                IF \E i \in existing : row_raises(store[i])
                THEN /\ ret' = Result("clock_in", FALSE, "Error clocking in")
                     /\ UNCHANGED <<store, nextId>>
                ELSE IF existing # {}
                THEN /\ ret' = Result("clock_in", FALSE, "already has an open shift")
                     /\ UNCHANGED <<store, nextId>>
                ELSE \E created \in {create_time_entry(
                                        store, nextId, employee_name, now,
                                        determine_pay_rate_type(is_supervisor, now), None)} :
                        IF created.raised
                        THEN /\ ret' = Result("clock_in", FALSE, "Error clocking in")
                             /\ store' = created.store
                             /\ UNCHANGED nextId
                        ELSE /\ ret' = Result("clock_in", TRUE, "clocked in successfully")
                             /\ store' = created.store
                             /\ nextId' = nextId + 1
    /\ UNCHANGED <<arg, val, pc, now>>

\* TimeTrackingService.clock_out
clock_out_with_request(employee_name) ==
    /\ IF NameRequest_post_init(employee_name) # Ok
       THEN /\ ret' = Raised("clock_out", EmptyNameError)
            /\ UNCHANGED store
       ELSE \E found \in {get_open_shift(store, employee_name)} :
                IF found = {}
                THEN /\ ret' = Result("clock_out", FALSE, "No open shift found")
                     /\ UNCHANGED store
                ELSE \E open_shift \in found :
                        IF row_raises(store[open_shift])
                        THEN /\ ret' = Result("clock_out", FALSE, "Error clocking out")
                             /\ UNCHANGED store
                        ELSE \E closed \in {close_shift(store, open_shift, now)} :
                                /\ store' = closed.store
                                /\ ret' = IF closed.raised
                                          THEN Result("clock_out", FALSE, "Error clocking out")
                                          ELSE Result("clock_out", TRUE, "clocked out successfully")
    /\ UNCHANGED <<arg, val, pc, nextId, now>>

\* the supervisor flag taking precedence over the override
shift_pay_rate_type_supervisor_first(is_supervisor, pay_rate_override, clock_in_datetime) ==
    IF is_supervisor THEN "Supervisor"
    ELSE IF pay_rate_override # None THEN pay_rate_override[1]
    ELSE determine_pay_rate_type(is_supervisor, clock_in_datetime)

\* the pay rate stored by add_shift_manually and edit_shift
shift_pay_rate_type(is_supervisor, pay_rate_override, clock_in_datetime) ==
    IF pay_rate_override # None THEN pay_rate_override[1]
    ELSE determine_pay_rate_type(is_supervisor, clock_in_datetime)

\* the clock-out stored for an entered clock-out
entered_clock_out(clock_out) ==
    IF clock_out = None THEN None ELSE Some(entered_to_utc(clock_out[1]))

\* TimeTrackingService.add_shift_manually
add_shift_manually_with_request(employee_name, clock_in, clock_out, is_supervisor, pay_rate_override) ==
    /\ nextId \in Ids
    /\ \E invalid \in {ShiftRequest_post_init(employee_name, clock_in, clock_out)} :
        IF invalid # Ok
        THEN /\ ret' = Raised("add_shift_manually", invalid)
             /\ UNCHANGED <<store, nextId>>
        ELSE \E created \in {create_time_entry(
                                store, nextId, employee_name, entered_to_utc(clock_in),
                                shift_pay_rate_type(is_supervisor, pay_rate_override,
                                                    entered_to_utc(clock_in)),
                                entered_clock_out(clock_out))} :
                IF created.raised
                THEN /\ ret' = Result("add_shift_manually", FALSE, "Error adding shift")
                     /\ store' = created.store
                     /\ UNCHANGED nextId
                ELSE /\ ret' = Result("add_shift_manually", TRUE, "Shift added")
                     /\ store' = created.store
                     /\ nextId' = nextId + 1
    /\ UNCHANGED <<arg, val, pc, now>>

\* TimeTrackingService.edit_shift
edit_shift_with_request(entry_id, employee_name, clock_in, clock_out, is_supervisor, pay_rate_override) ==
    /\ \E invalid \in {ShiftRequest_post_init(employee_name, clock_in, clock_out)} :
        IF invalid # Ok
        THEN /\ ret' = Raised("edit_shift", invalid)
             /\ UNCHANGED store
        ELSE \E updated \in {update_time_entry(
                                store, entry_id, employee_name, entered_to_utc(clock_in),
                                entered_clock_out(clock_out),
                                shift_pay_rate_type(is_supervisor, pay_rate_override,
                                                    entered_to_utc(clock_in)))} :
                /\ store' = updated.store
                /\ ret' = IF updated.raised
                          THEN Result("edit_shift", FALSE, "Error updating shift")
                          ELSE Result("edit_shift", TRUE, "Shift updated")
    /\ UNCHANGED <<arg, val, pc, nextId, now>>

\* TimeTrackingService.delete_entry
delete_entry(entry_id) ==
    /\ \E done \in {delete_time_entry(store, entry_id)} :
        /\ store' = done.store
        /\ ret' = IF done.deleted
                  THEN Result("delete_entry", TRUE, "Entry deleted successfully")
                  ELSE Result("delete_entry", FALSE, "Entry not found")
    /\ UNCHANGED <<arg, val, pc, nextId, now>>

ClockIn == \E e \in ServiceNames, sup \in BOOLEAN : clock_in_with_request(e, sup)
ClockOut == \E e \in ServiceNames : clock_out_with_request(e)
AddShiftManually ==
    \E e \in ServiceNames, ci \in EnteredTimes, co \in OptEnteredTimes, sup \in BOOLEAN,
       ov \in {None} \cup {Some(p) : p \in PayRateType} :
        add_shift_manually_with_request(e, ci, co, sup, ov)
EditShift ==
    \E id \in Ids, e \in ServiceNames, ci \in EnteredTimes, co \in OptEnteredTimes,
       sup \in BOOLEAN, ov \in {None} \cup {Some(p) : p \in PayRateType} :
        edit_shift_with_request(id, e, ci, co, sup, ov)
DeleteEntry == \E id \in Ids : delete_entry(id)

Next == Tick \/ ClockIn \/ ClockOut \/ AddShiftManually \/ EditShift \/ DeleteEntry

Spec == Init /\ [][Next]_vars

\* C9: after any sequence of service operations every stored shift has a
\* non-empty trimmed employee name and a clock-out that is absent or
\* strictly after its clock-in; an operation whose record fails validation
\* is rolled back.
C9_StoreValid ==
    \A i \in DOMAIN store :
        /\ strip(store[i].employee) # << >>
        /\ store[i].clock_out = None \/ store[i].clock_out[1] > store[i].clock_in

C9_Witness ==
    /\ ret # None /\ ret[1].op = "clock_out" /\ ~ret[1].success /\ ~ret[1].raised
    /\ ret[1].msg = "Error clocking out"
    /\ \E i \in DOMAIN store : store[i].clock_out = None /\ store[i].clock_in >= now

----------------------------------------------------------------------------
(* Properties of clock_in and clock_out, one request at a time *)

\* the same employee: names compared case-insensitively after trimming
SameEmployee(n1, n2) == lower(strip(n1)) = lower(strip(n2))

\* open shifts of the store held for this employee
OpenShiftsOf(employee) ==
    {i \in DOMAIN store : SameEmployee(store[i].employee, employee)
                          /\ store[i].clock_out = None}

\* the step is a clock_in / clock_out request for a name not empty after
\* trimming
ClockInStep(employee, is_supervisor) ==
    /\ ret' # None
    /\ ret'[1].op = "clock_in"
    /\ strip(employee) # << >>
    /\ clock_in_with_request(employee, is_supervisor)

ClockOutStep(employee) ==
    /\ ret' # None
    /\ ret'[1].op = "clock_out"
    /\ strip(employee) # << >>
    /\ clock_out_with_request(employee)

\* the step adds exactly one shift, open, for this employee, and leaves
\* every other shift as it was
OneOpenShiftCreated(employee) ==
    \E id \in DOMAIN store' \ DOMAIN store :
        /\ DOMAIN store' = DOMAIN store \cup {id}
        /\ store'[id].employee = strip(employee)
        /\ store'[id].clock_out = None
        /\ \A i \in DOMAIN store : store'[i] = store[i]

ClockInAsClaimed(employee) ==
    IF OpenShiftsOf(employee) # {}
    THEN /\ ret' = Result("clock_in", FALSE, "already has an open shift")
         /\ store' = store
    ELSE /\ ret'[1].success
         /\ OneOpenShiftCreated(employee)

\* C19: clock_in for an employee (a name not empty after trimming) who
\* already has an open shift, names matched case-insensitively after
\* trimming, fails with 'already has an open shift' and leaves the store
\* unchanged; otherwise it creates exactly one new open shift for that
\* employee and leaves all other shifts unchanged.
C19_ClockIn ==
    [][\A e \in ServiceNames, sup \in BOOLEAN :
          ClockInStep(e, sup) => ClockInAsClaimed(e)]_vars

C19_Witness ==
    /\ ret = Result("clock_in", FALSE, "already has an open shift")
    /\ \E i \in DOMAIN store :
        /\ store[i].employee = <<"A">>
        /\ store[i].clock_out = None
        /\ store[i].clock_in < now

\* open shifts of this employee with the latest clock-in
LatestOpenShiftsOf(employee) ==
    {i \in OpenShiftsOf(employee) :
        \A j \in OpenShiftsOf(employee) : store[j].clock_in <= store[i].clock_in}

\* the step sets the clock-out of one of the employee's open shifts with the
\* latest clock-in and changes nothing else
LatestOpenShiftClosed(employee) ==
    \E i \in LatestOpenShiftsOf(employee) :
        store' = [store EXCEPT ![i].clock_out = Some(now)]

\* C20 as stated: clock_out for an employee with no open shift fails with
\* 'No open shift found' and changes nothing; when the employee has open
\* shifts it sets the clock-out of the one with the latest clock-in and
\* changes no other shift and no other field of that shift.
C20_ClockOutAsStated ==
    [][\A e \in ServiceNames :
          ClockOutStep(e) =>
              IF OpenShiftsOf(e) = {}
              THEN /\ ret' = Result("clock_out", FALSE, "No open shift found")
                   /\ store' = store
              ELSE LatestOpenShiftClosed(e)]_vars

\* C20: clock_out for an employee with no open shift fails with 'No open
\* shift found' and changes nothing; when the employee has open shifts and
\* the current time is after the latest clock-in among them, it sets the
\* clock-out of one with that clock-in and changes nothing else; when the
\* current time is not after it, it fails and changes nothing.
C20_ClockOut ==
    [][\A e \in ServiceNames :
          ClockOutStep(e) =>
              IF OpenShiftsOf(e) = {}
              THEN /\ ret' = Result("clock_out", FALSE, "No open shift found")
                   /\ store' = store
              ELSE IF \E i \in LatestOpenShiftsOf(e) : store[i].clock_in < now
              THEN /\ ret' = Result("clock_out", TRUE, "clocked out successfully")
                   /\ LatestOpenShiftClosed(e)
              ELSE /\ ret' = Result("clock_out", FALSE, "Error clocking out")
                   /\ store' = store]_vars

\* a clock-out has closed the later of two shifts of one employee
C20_Witness ==
    /\ ret = Result("clock_out", TRUE, "clocked out successfully")
    /\ \E i, j \in DOMAIN store :
        /\ SameEmployee(store[i].employee, store[j].employee)
        /\ store[i].clock_out = None
        /\ store[j].clock_out = Some(now)
        /\ store[i].clock_in < store[j].clock_in

----------------------------------------------------------------------------
(* Pay-rate resolution: TimeTrackingService._determine_pay_rate_type and
   app.determine_pay_rate_type, on every instant of the bounded horizon *)

\* app.get_bst_time
app_get_bst_time(utc_time) == [utc_time EXCEPT !.wall = @ + Hours(1)]

\* app.is_bst_enhanced_hours
app_is_bst_enhanced_hours(clock_in_time) ==
    LET aware_time == IF clock_in_time.tzinfo = None
                      THEN [clock_in_time EXCEPT !.tzinfo = UTC]
                      ELSE clock_in_time
        h == hour(app_get_bst_time(aware_time).wall)
    IN  h >= 19 \/ h < 4

\* app.determine_pay_rate_type
app_determine_pay_rate_type(is_supervisor, clock_in_time) ==
    IF is_supervisor THEN "Supervisor"
    ELSE IF app_is_bst_enhanced_hours(aware(clock_in_time)) THEN "Enhanced"
    ELSE "Standard"

MaxPayRateHours == 48
PayRateTimes == 0 .. Hours(MaxPayRateHours)

\* clock_in_time is an instant or None, None standing for the current time
InitPayRate ==
    /\ arg \in [is_supervisor : BOOLEAN,
                clock_in_time : {None} \cup {Some(t) : t \in PayRateTimes}]
    /\ now \in IF arg.clock_in_time = None THEN PayRateTimes ELSE {0}
    /\ val = None
    /\ pc = "call"
    /\ store = << >>
    /\ nextId = 1
    /\ ret = None

\* the instant the resolution is made for
PayRateInstant == IF arg.clock_in_time = None THEN now ELSE arg.clock_in_time[1]

DeterminePayRateType ==
    /\ pc = "call"
    /\ val' = Some([service |-> determine_pay_rate_type(arg.is_supervisor, PayRateInstant),
                    app |-> app_determine_pay_rate_type(arg.is_supervisor, PayRateInstant)])
    /\ pc' = "done"
    /\ UNCHANGED <<arg, store, nextId, now, ret>>

NextPayRate == DeterminePayRateType

SpecPayRate == InitPayRate /\ [][NextPayRate]_vars

PayRateLocalHour == hour(PayRateInstant + Hours(1))

PayRateAsClaimed(r) ==
    /\ r \in {"Standard", "Enhanced", "Supervisor"}
    /\ arg.is_supervisor => r = "Supervisor"
    /\ ~arg.is_supervisor =>
        /\ r = "Enhanced" <=> (PayRateLocalHour >= 19 \/ PayRateLocalHour < 4)
        /\ r = "Standard" <=> ~(PayRateLocalHour >= 19 \/ PayRateLocalHour < 4)

\* C12: pay-rate resolution returns Supervisor whenever the supervisor flag
\* is set, whatever the instant; otherwise Enhanced exactly when the local
\* hour (reference + 1 h) is >= 19 or < 4 and Standard in every other case;
\* the result is always one of the three categories.
C12_PayRateResolution ==
    Returned => PayRateAsClaimed(val[1].service) /\ PayRateAsClaimed(val[1].app)

C12_Witness ==
    /\ Returned
    /\ arg.is_supervisor
    /\ PayRateLocalHour = 19
    /\ val[1].service = "Supervisor"

----------------------------------------------------------------------------
(* Python floats.  A float is a binary number with a significand of
   MantissaBits bits (a double has 53), counted in units of 2^-FractionBits
   hours; every arithmetic result is rounded to the nearest float, ties to
   the even significand.  Only non-negative floats are used. *)

MantissaBits == 13
FractionBits == MantissaBits + 7

RECURSIVE bit_length(_)
bit_length(n) == IF n = 0 THEN 0 ELSE 1 + bit_length(n \div 2)

\* the float nearest to n / d units
float_round(n, d) ==
    LET excess == bit_length(n \div d) - MantissaBits
    IN  IF excess <= 0 THEN RoundHalfEven(n, d)
        ELSE RoundHalfEven(n, d * 2^excess) * 2^excess

\* float.__add__
float_add(a, b) == float_round(a + b, 1)

\* the float of a decimal literal or of the result of round(x, 2)
from_hundredths(k) == float_round(k * 2^FractionBits, 100)

\* round(x, 2), as a count of hundredths
to_hundredths(x) == RoundHalfEven(x * 100, 2^FractionBits)

----------------------------------------------------------------------------
(* core/models.py: TimeSplit *)

\* TimeSplit.__add__ crediting the other split's enhanced hours as standard
TimeSplit_add_enhanced_as_standard(self, other) ==
    [standard_hours |-> float_add(self.standard_hours, other.enhanced_hours),
     enhanced_hours |-> float_add(self.enhanced_hours, other.standard_hours),
     supervisor_hours |-> float_add(self.supervisor_hours, other.supervisor_hours)]

\* TimeSplit.__add__
TimeSplit_add(self, other) ==
    [standard_hours |-> float_add(self.standard_hours, other.standard_hours),
     enhanced_hours |-> float_add(self.enhanced_hours, other.enhanced_hours),
     supervisor_hours |-> float_add(self.supervisor_hours, other.supervisor_hours)]

\* TimeSplit.total_hours
TimeSplit_total_hours(self) ==
    float_add(float_add(self.standard_hours, self.enhanced_hours), self.supervisor_hours)

ZeroTimeSplit == [standard_hours |-> 0, enhanced_hours |-> 0, supervisor_hours |-> 0]

\* 0.0, 0.33 and 0.67 hours
SplitHours == {0, from_hundredths(33), from_hundredths(67)}
TimeSplits ==
    [standard_hours : SplitHours, enhanced_hours : SplitHours, supervisor_hours : SplitHours]

InitAdd ==
    /\ arg \in [a : TimeSplits, b : TimeSplits, c : TimeSplits]
    /\ val = None
    /\ pc = "call"
    /\ store = << >>
    /\ nextId = 1
    /\ now = 0
    /\ ret = None

AddTimeSplits ==
    /\ pc = "call"
    /\ val' = Some([ab |-> TimeSplit_add(arg.a, arg.b),
                    ba |-> TimeSplit_add(arg.b, arg.a),
                    ab_c |-> TimeSplit_add(TimeSplit_add(arg.a, arg.b), arg.c),
                    a_bc |-> TimeSplit_add(arg.a, TimeSplit_add(arg.b, arg.c)),
                    a_zero |-> TimeSplit_add(arg.a, ZeroTimeSplit),
                    zero_a |-> TimeSplit_add(ZeroTimeSplit, arg.a),
                    total_ab |-> TimeSplit_total_hours(TimeSplit_add(arg.a, arg.b)),
                    total_a |-> TimeSplit_total_hours(arg.a),
                    total_b |-> TimeSplit_total_hours(arg.b)])
    /\ pc' = "done"
    /\ UNCHANGED <<arg, store, nextId, now, ret>>

NextAdd == AddTimeSplits

SpecAdd == InitAdd /\ [][NextAdd]_vars

Fields == {"standard_hours", "enhanced_hours", "supervisor_hours"}

\* (a + b) has each component equal to the float sum of the components,
\* a + b = b + a, and a + 0 = 0 + a = a
ComponentWise ==
    /\ \A f \in Fields : val[1].ab[f] = float_add(arg.a[f], arg.b[f])
    /\ val[1].ab = val[1].ba
    /\ val[1].a_zero = arg.a
    /\ val[1].zero_a = arg.a

\* the float sum of x and y is their exact sum
Exact(x, y) == float_add(x, y) = x + y

ExactTotal(t) ==
    /\ Exact(t.standard_hours, t.enhanced_hours)
    /\ Exact(t.standard_hours + t.enhanced_hours, t.supervisor_hours)

\* no sum made for (a + b) + c, a + (b + c) and the totals is rounded
NoSumRounded ==
    /\ \A f \in Fields :
        /\ Exact(arg.a[f], arg.b[f])
        /\ Exact(arg.b[f], arg.c[f])
        /\ Exact(arg.a[f] + arg.b[f], arg.c[f])
        /\ Exact(arg.a[f], arg.b[f] + arg.c[f])
    /\ ExactTotal(arg.a)
    /\ ExactTotal(arg.b)
    /\ ExactTotal(val[1].ab)
    /\ Exact(val[1].total_a, val[1].total_b)

----------------------------------------------------------------------------
(* export_functions.py: calculate_staff_summary and calculate_summary.  An
   entry is [employee, clock_in, clock_out, pay_rate_type]; a staff summary
   is a dict: the employee strings seen, in the order of their insertion
   (keys), and the totals of each (get).  Hours are floats; shift counts
   are integers. *)

EmptyDict == [keys |-> << >>, get |-> << >>]

ZeroStaff ==
    [Standard |-> 0, Enhanced |-> 0, Supervisor |-> 0, total_hours |-> 0, total_shifts |-> 0]

\* the split of one entry with a shift stored as Enhanced credited wholly to
\* the Enhanced bucket
entry_split_by_category(entry) ==
    LET split == split_shift_by_rate(entry.clock_in, entry.clock_out,
                                     entry.pay_rate_type = "Supervisor")
    IN  IF entry.pay_rate_type = "Enhanced"
        THEN [Standard |-> 0,
              Enhanced |-> from_hundredths(round2(entry.clock_out[1] - entry.clock_in)),
              Supervisor |-> 0]
        ELSE [Standard |-> from_hundredths(split.Standard),
              Enhanced |-> from_hundredths(split.Enhanced),
              Supervisor |-> from_hundredths(split.Supervisor)]

\* the split of one entry, the supervisor flag read off its pay rate type;
\* each bucket is the float that round(., 2) returned
entry_split(entry) ==
    LET split == split_shift_by_rate(entry.clock_in, entry.clock_out,
                                     entry.pay_rate_type = "Supervisor")
    IN  [Standard |-> from_hundredths(split.Standard),
         Enhanced |-> from_hundredths(split.Enhanced),
         Supervisor |-> from_hundredths(split.Supervisor)]

\* sum(split.values())
sum_split(split) ==
    float_add(float_add(float_add(0, split.Standard), split.Enhanced), split.Supervisor)

\* staff_summary[employee] created on first sight, then incremented
accumulate(staff_summary, employee, split) ==
    LET known == employee \in DOMAIN staff_summary.get
        seen == IF known THEN staff_summary.get[employee] ELSE ZeroStaff
        updated == [Standard |-> float_add(seen.Standard, split.Standard),
                    Enhanced |-> float_add(seen.Enhanced, split.Enhanced),
                    Supervisor |-> float_add(seen.Supervisor, split.Supervisor),
                    total_hours |-> float_add(seen.total_hours, sum_split(split)),
                    total_shifts |-> seen.total_shifts + 1]
    IN  [keys |-> IF known THEN staff_summary.keys
                  ELSE Append(staff_summary.keys, employee),
         get |-> [e \in DOMAIN staff_summary.get \cup {employee} |->
                     IF e = employee THEN updated ELSE staff_summary.get[e]]]

\* an open shift left out of the summary altogether
add_entry_skip_open(staff_summary, entry) ==
    IF entry.clock_out = None THEN staff_summary
    ELSE accumulate(staff_summary, entry.employee, entry_split(entry))

\* the summary keyed by the lower-cased employee name
add_entry_case_folded(staff_summary, entry) ==
    accumulate(staff_summary, lower(entry.employee), entry_split(entry))

\* one iteration of the loop of calculate_staff_summary
add_entry(staff_summary, entry) ==
    accumulate(staff_summary, entry.employee, entry_split(entry))

RECURSIVE calculate_staff_summary(_)
calculate_staff_summary(entries) ==
    IF entries = << >> THEN EmptyDict
    ELSE add_entry(calculate_staff_summary(SubSeq(entries, 1, Len(entries) - 1)),
                   entries[Len(entries)])

\* sum(staff['total_hours'] for staff in staff_summary.values()), over the
\* first n values
RECURSIVE sum_total_hours(_, _)
sum_total_hours(staff_summary, n) ==
    IF n = 0 THEN 0
    ELSE float_add(sum_total_hours(staff_summary, n - 1),
                   staff_summary.get[staff_summary.keys[n]].total_hours)

\* sum(staff['total_shifts'] for staff in staff_summary.values()), over the
\* first n values
RECURSIVE sum_total_shifts(_, _)
sum_total_shifts(staff_summary, n) ==
    IF n = 0 THEN 0
    ELSE sum_total_shifts(staff_summary, n - 1)
         + staff_summary.get[staff_summary.keys[n]].total_shifts

calculate_summary(entries) ==
    LET staff_summary == calculate_staff_summary(entries)
        total_hours == sum_total_hours(staff_summary, Len(staff_summary.keys))
    IN  [total_hours |-> from_hundredths(to_hundredths(total_hours)),
         total_shifts |-> sum_total_shifts(staff_summary, Len(staff_summary.keys)),
         unique_employees |-> Len(staff_summary.keys),
         staff_summary |-> staff_summary]

MaxEntries == 3
SummaryStartHour == 17
SummaryNames == {<<"a">>, <<"A">>, <<"b">>}
\* shifts clocked in at 18:40 local: open, 20 minutes long, 40 minutes long
SummaryClockIn == Hours(SummaryStartHour) + 2
SummaryClockOuts == {None, Some(SummaryClockIn + 1), Some(SummaryClockIn + 2)}
SummaryEntries ==
    [employee : SummaryNames, clock_in : {SummaryClockIn},
     clock_out : SummaryClockOuts, pay_rate_type : {"Standard", "Supervisor"}]
SummaryLists == UNION {[1 .. n -> SummaryEntries] : n \in 0 .. MaxEntries}

InitSummary ==
    /\ arg \in SummaryLists
    /\ val = None
    /\ pc = "call"
    /\ store = << >>
    /\ nextId = 1
    /\ now = 0
    /\ ret = None

CalculateSummary ==
    /\ pc = "call"
    /\ val' = Some([staff |-> calculate_staff_summary(arg),
                    overall |-> calculate_summary(arg)])
    /\ pc' = "done"
    /\ UNCHANGED <<arg, store, nextId, now, ret>>

NextSummary == CalculateSummary

SpecSummary == InitSummary /\ [][NextSummary]_vars

----------------------------------------------------------------------------
(* Properties of the aggregation *)

Orderings(n) ==
    {f \in [1 .. n -> 1 .. n] : \A i, j \in 1 .. n : f[i] = f[j] => i = j}
Permuted(entries, f) == [i \in 1 .. Len(entries) |-> entries[f[i]]]

\* the floats of a sequence added up from left to right, starting from 0
RECURSIVE FloatSum(_)
FloatSum(q) ==
    IF q = << >> THEN 0
    ELSE float_add(FloatSum(SubSeq(q, 1, Len(q) - 1)), q[Len(q)])

\* the per-employee total hours of a staff summary, added up
StaffTotalHours(staff_summary) ==
    FloatSum([i \in DOMAIN staff_summary.keys |->
                 staff_summary.get[staff_summary.keys[i]].total_hours])

\* equality of two overall summaries, the staff summaries compared as dicts
SameSummary(s1, s2) ==
    /\ s1.total_hours = s2.total_hours
    /\ s1.total_shifts = s2.total_shifts
    /\ s1.unique_employees = s2.unique_employees
    /\ s1.staff_summary.get = s2.staff_summary.get

\* C13: the overall total hours of calculate_summary equals the sum of the
\* per-employee total hours of calculate_staff_summary, and the overall
\* summary (totals, unique employees, every employee's buckets and shift
\* count) is the same for every permutation of the input list.
C13_TotalAndOrderIndependent ==
    Returned =>
        /\ val[1].overall.total_hours = StaffTotalHours(val[1].staff)
        /\ \A f \in Orderings(Len(arg)) :
              SameSummary(calculate_summary(Permuted(arg, f)), val[1].overall)

\* number of entries of the list stored under exactly this name
ShiftsOf(entries, name) ==
    Cardinality({i \in DOMAIN entries : entries[i].employee = name})

\* hours of one bucket over the closed entries stored under exactly this name
BucketOf(entries, name, bucket) ==
    FloatSum([i \in DOMAIN entries |->
                 IF entries[i].employee = name /\ entries[i].clock_out # None
                 THEN entry_split(entries[i])[bucket] ELSE 0])

\* hours of all buckets over the closed entries stored under exactly this name
TotalOf(entries, name) ==
    FloatSum([i \in DOMAIN entries |->
                 IF entries[i].employee = name /\ entries[i].clock_out # None
                 THEN sum_split(entry_split(entries[i])) ELSE 0])

Buckets == {"Standard", "Enhanced", "Supervisor"}

\* C14: aggregating a batch that mixes open and closed shifts returns a
\* summary in which each shift, open or closed, counts once for its
\* employee, an open shift adds zero hours to every bucket, and the overall
\* total_shifts is the number of shifts in the input.
C14_OpenAndClosed ==
    Returned =>
        /\ val[1].overall.total_shifts = Len(arg)
        /\ \A i \in DOMAIN arg :
            /\ arg[i].employee \in DOMAIN val[1].staff.get
            /\ val[1].staff.get[arg[i].employee].total_shifts = ShiftsOf(arg, arg[i].employee)
            /\ \A b \in Buckets :
                  val[1].staff.get[arg[i].employee][b] = BucketOf(arg, arg[i].employee, b)
        /\ \A i \in DOMAIN arg : arg[i].clock_out = None =>
              \A b \in Buckets : entry_split(arg[i])[b] = 0

C14_Witness ==
    /\ Returned
    /\ Len(arg) = 3
    /\ arg[1].employee = arg[2].employee
    /\ arg[1].clock_out = None
    /\ arg[2].clock_out # None
    /\ arg[3].clock_out = None
    /\ val[1].staff.get[arg[1].employee].total_shifts >= 2
    /\ val[1].staff.get[arg[1].employee].total_hours > 0

\* C15: aggregation groups shifts by the exact stored employee string,
\* case-sensitively: unique_employees is the number of distinct exact names,
\* and each per-employee summary holds only the hours and shift count of
\* the shifts stored under exactly that name.
C15_ExactNameGrouping ==
    Returned =>
        /\ val[1].overall.unique_employees =
              Cardinality({arg[i].employee : i \in DOMAIN arg})
        /\ DOMAIN val[1].overall.staff_summary.get = {arg[i].employee : i \in DOMAIN arg}
        /\ \A name \in DOMAIN val[1].overall.staff_summary.get :
            /\ val[1].overall.staff_summary.get[name].total_shifts = ShiftsOf(arg, name)
            /\ \A b \in Buckets :
                  val[1].overall.staff_summary.get[name][b] = BucketOf(arg, name, b)
            /\ val[1].overall.staff_summary.get[name].total_hours = TotalOf(arg, name)

C15_Witness ==
    /\ Returned
    /\ \E i, j \in DOMAIN arg :
        /\ arg[i].employee = <<"a">>
        /\ arg[j].employee = <<"A">>
        /\ arg[i].clock_out # None
        /\ arg[j].clock_out # None
        /\ arg[i].clock_out # arg[j].clock_out
    /\ val[1].overall.unique_employees = 2
    /\ val[1].overall.staff_summary.get[<<"a">>].total_hours
         # val[1].overall.staff_summary.get[<<"A">>].total_hours

----------------------------------------------------------------------------
(* Concurrent requests: two sessions call the service at the same time.
   Each repository call is one transaction, so a clock_in is two steps (the
   open-shift query, then the insert) and a clock_out is two steps (the
   open-shift query, then the update); steps of different sessions
   interleave.  pc, arg, val and ret hold one value per session: the
   session's position, its request, the shift its query returned, and the
   result of its last request. *)

Sessions == {1, 2}
ConcurrentNames == {<<"a">>, <<"A", " ">>, <<"b">>}

InitConcurrent ==
    /\ pc = [p \in Sessions |-> "idle"]
    /\ arg = [p \in Sessions |-> None]
    /\ val = [p \in Sessions |-> None]
    /\ ret = [p \in Sessions |-> None]
    /\ store = << >>
    /\ nextId = 1
    /\ now = 0

\* inserts that sessions have decided on and not yet made
PendingInserts == Cardinality({q \in Sessions : pc[q] = "insert"})

\* clock_in_with_request up to the return of get_open_shift
ClockInQuery(p, employee_name, is_supervisor) ==
    /\ pc[p] = "idle"
    /\ nextId + PendingInserts \in Ids
    /\ IF get_open_shift(store, employee_name) # {}
       THEN /\ ret' = [ret EXCEPT ![p] = Result("clock_in", FALSE, "already has an open shift")]
            /\ UNCHANGED <<pc, arg>>
       ELSE /\ pc' = [pc EXCEPT ![p] = "insert"]
            /\ arg' = [arg EXCEPT ![p] = Some([employee_name |-> employee_name,
                                               is_supervisor |-> is_supervisor])]
            /\ UNCHANGED ret
    /\ UNCHANGED <<val, store, nextId, now>>

\* clock_in_with_request from datetime.now() to its return
ClockInInsert(p) ==
    /\ pc[p] = "insert"
    /\ \E created \in {create_time_entry(
                          store, nextId, arg[p][1].employee_name, now,
                          determine_pay_rate_type(arg[p][1].is_supervisor, now), None)} :
        IF created.raised
        THEN /\ ret' = [ret EXCEPT ![p] = Result("clock_in", FALSE, "Error clocking in")]
             /\ store' = created.store
             /\ UNCHANGED nextId
        ELSE /\ ret' = [ret EXCEPT ![p] = Result("clock_in", TRUE, "clocked in successfully")]
             /\ store' = created.store
             /\ nextId' = nextId + 1
    /\ pc' = [pc EXCEPT ![p] = "idle"]
    /\ arg' = [arg EXCEPT ![p] = None]
    /\ UNCHANGED <<val, now>>

\* clock_out_with_request up to the return of get_open_shift
ClockOutQuery(p, employee_name) ==
    /\ pc[p] = "idle"
    /\ IF get_open_shift(store, employee_name) = {}
       THEN /\ ret' = [ret EXCEPT ![p] = Result("clock_out", FALSE, "No open shift found")]
            /\ UNCHANGED <<pc, val>>
       ELSE \E open_shift \in get_open_shift(store, employee_name) :
            /\ pc' = [pc EXCEPT ![p] = "close"]
            /\ val' = [val EXCEPT ![p] = Some(open_shift)]
            /\ UNCHANGED ret
    /\ UNCHANGED <<arg, store, nextId, now>>

\* clock_out_with_request from datetime.now() to its return
ClockOutClose(p) ==
    /\ pc[p] = "close"
    /\ \E closed \in {close_shift(store, val[p][1], now)} :
        /\ store' = closed.store
        /\ ret' = [ret EXCEPT ![p] =
                      IF closed.raised
                      THEN Result("clock_out", FALSE, "Error clocking out")
                      ELSE Result("clock_out", TRUE, "clocked out successfully")]
    /\ pc' = [pc EXCEPT ![p] = "idle"]
    /\ val' = [val EXCEPT ![p] = None]
    /\ UNCHANGED <<arg, nextId, now>>

ConcurrentClockInQuery ==
    \E p \in Sessions, e \in ConcurrentNames, sup \in BOOLEAN : ClockInQuery(p, e, sup)
ConcurrentClockInInsert == \E p \in Sessions : ClockInInsert(p)
ConcurrentClockOutQuery == \E p \in Sessions, e \in ConcurrentNames : ClockOutQuery(p, e)
ConcurrentClockOutClose == \E p \in Sessions : ClockOutClose(p)

NextConcurrent ==
    \/ Tick
    \/ ConcurrentClockInQuery
    \/ ConcurrentClockInInsert
    \/ ConcurrentClockOutQuery
    \/ ConcurrentClockOutClose

SpecConcurrent == InitConcurrent /\ [][NextConcurrent]_vars

\* C16: when two clock_in requests for the same employee run concurrently,
\* their open-shift check and insert steps interleaved, at most one of them
\* succeeds: the store never holds more than one open shift for one
\* employee.
C16_AtMostOneOpenShift ==
    \A i, j \in DOMAIN store :
        (/\ SameEmployee(store[i].employee, store[j].employee)
         /\ store[i].clock_out = None
         /\ store[j].clock_out = None) => i = j

\* C17: a shift's clock-out is set at most once by clock-out actions: once a
\* shift has been closed, no later step of a clock_in or clock_out request
\* changes any of its fields, also when two clock_out requests for the same
\* employee are interleaved.
C17_ClosedShiftUnchanged ==
    [][\A i \in DOMAIN store :
          store[i].clock_out # None => (i \in DOMAIN store' /\ store'[i] = store[i])]_vars

----------------------------------------------------------------------------
(* The split of one closed shift under each stored category, as
   calculate_staff_summary computes it *)

MaxCategoryStartHours == 24
MaxCategoryShiftHours == 8

InitCategory ==
    /\ arg \in [clock_in : 0 .. Hours(MaxCategoryStartHours),
                length : 1 .. Hours(MaxCategoryShiftHours)]
    /\ val = None
    /\ pc = "call"
    /\ store = << >>
    /\ nextId = 1
    /\ now = 0
    /\ ret = None

\* the entry of the shift of arg stored with this category
CategoryEntry(pay_rate_type) ==
    [employee |-> <<"a">>, clock_in |-> arg.clock_in,
     clock_out |-> Some(arg.clock_in + arg.length), pay_rate_type |-> pay_rate_type]

SplitByCategory ==
    /\ pc = "call"
    /\ val' = Some([p \in PayRateType |-> entry_split(CategoryEntry(p))])
    /\ pc' = "done"
    /\ UNCHANGED <<arg, store, nextId, now, ret>>

NextCategory == SplitByCategory

SpecCategory == InitCategory /\ [][NextCategory]_vars

\* C21: the split of a closed shift not stored as Supervisor depends only on
\* its instants: stored as Standard or as Enhanced it gets the same split,
\* and only the stored category Supervisor changes the result.
C21_CategoryIndependent ==
    Returned =>
        /\ val[1]["Standard"] = val[1]["Enhanced"]
        /\ val[1]["Supervisor"] # val[1]["Standard"]

\* a shift from local 18:00 to 20:00: one hour in each bucket whether stored
\* as Standard or Enhanced
C21_Witness ==
    /\ Returned
    /\ arg.clock_in = Hours(17)
    /\ arg.length = Hours(2)
    /\ val[1]["Enhanced"].Standard = from_hundredths(100)
    /\ val[1]["Enhanced"].Enhanced = from_hundredths(100)
    /\ val[1]["Supervisor"].Supervisor = from_hundredths(200)

----------------------------------------------------------------------------
(* Shifts entered by a manager: add_shift_manually and edit_shift applied
   to one request each, the requests ranging over the hours around the
   19:00 and 04:00 boundaries *)

ManualClockIns == {Hours(2), Hours(3), Hours(17), Hours(18)}
ManualRequests ==
    [employee_name : {<<"a">>},
     clock_in : ManualClockIns,
     length : {None, Some(Hours(2))},
     is_supervisor : BOOLEAN,
     pay_rate_override : {None} \cup {Some(p) : p \in PayRateType}]

\* the clock-out entered with a request
ManualClockOut(request) ==
    IF request.length = None THEN None ELSE Some(request.clock_in + request.length[1])

InitManual ==
    /\ arg \in [add : ManualRequests, edit : ManualRequests, entry_id : Ids]
    /\ val = None
    /\ pc = "idle"
    /\ store = << >>
    /\ nextId = 1
    /\ now = 0
    /\ ret = None

ManualAdd ==
    add_shift_manually_with_request(
        arg.add.employee_name, arg.add.clock_in, ManualClockOut(arg.add),
        arg.add.is_supervisor, arg.add.pay_rate_override)

ManualEdit ==
    edit_shift_with_request(
        arg.entry_id, arg.edit.employee_name, arg.edit.clock_in, ManualClockOut(arg.edit),
        arg.edit.is_supervisor, arg.edit.pay_rate_override)

NextManual == ManualAdd \/ ManualEdit

SpecManual == InitManual /\ [][NextManual]_vars

\* the category resolved from the supervisor flag and an instant
ResolvedCategory(is_supervisor, t) ==
    IF is_supervisor THEN "Supervisor"
    ELSE IF hour(t + Hours(1)) >= 19 \/ hour(t + Hours(1)) < 4 THEN "Enhanced"
    ELSE "Standard"

\* the row holds the category the claim gives for this request
CategoryAsClaimed(row, request) ==
    row.pay_rate_type =
        IF request.pay_rate_override # None THEN request.pay_rate_override[1]
        ELSE ResolvedCategory(request.is_supervisor, row.clock_in)

Succeeded(op) == ret # None /\ ret[1].op = op /\ ret[1].success

\* C22: a shift added or edited by a manager with a pay-rate override is
\* stored with the override as its category, whatever the supervisor flag
\* and the clock-in time; with no override the stored category is the one
\* resolved from the supervisor flag and the stored clock-in instant.
C22_OverrideOrResolved ==
    /\ Succeeded("add_shift_manually") => CategoryAsClaimed(store[nextId - 1], arg.add)
    /\ Succeeded("edit_shift") => CategoryAsClaimed(store[arg.entry_id], arg.edit)
    /\ \A i \in DOMAIN store :
          CategoryAsClaimed(store[i], arg.add) \/ CategoryAsClaimed(store[i], arg.edit)

\* a supervisor's shift entered for the evening and overridden to Standard,
\* then edited without override
C22_Witness ==
    /\ Succeeded("edit_shift")
    /\ arg.add.is_supervisor
    /\ arg.add.pay_rate_override = Some("Standard")
    /\ arg.add.clock_in = Hours(18)
    /\ arg.edit.pay_rate_override = None
    /\ ~arg.edit.is_supervisor
    /\ arg.edit.clock_in = Hours(18)
    /\ \E i, j \in DOMAIN store :
        /\ store[i].pay_rate_type = "Standard"
        /\ store[j].pay_rate_type = "Enhanced"

----------------------------------------------------------------------------
(* core/services.py: calculate_time_split, calculate_staff_summary and
   calculate_overall_summary.  A call returns [raised, value]: the value it
   returns, or the name of the exception it raises. *)

Returns(value) == [raised |-> FALSE, value |-> value]
Raises(exception) == [raised |-> TRUE, value |-> exception]

\* the fields of the dataclasses of core/models.py, none with a default
StaffSummaryFields ==
    {"employee", "standard_hours", "enhanced_hours", "supervisor_hours", "total_shifts"}
OverallSummaryFields ==
    {"total_hours", "total_shifts", "unique_employees", "staff_summaries"}

\* the generated __init__ of a dataclass called with keyword arguments
dataclass_init(fields, kwargs) ==
    IF DOMAIN kwargs = fields THEN Returns(kwargs) ELSE Raises("TypeError")

\* duration.total_seconds() / 3600, a float
total_hours_of(ticks) == float_round(ticks * 2^FractionBits, TicksPerHour)

\* TimeTrackingService.calculate_time_split; the hour is read off the stored
\* (UTC) clock-in
calculate_time_split(time_entry) ==
    IF time_entry.clock_out = None THEN ZeroTimeSplit
    ELSE LET total_hours == total_hours_of(time_entry.clock_out[1] - time_entry.clock_in)
             clock_in_hour == hour(time_entry.clock_in)
         IN  IF time_entry.pay_rate_type = "Supervisor"
             THEN [standard_hours |-> 0, enhanced_hours |-> 0,
                   supervisor_hours |-> total_hours]
             ELSE IF clock_in_hour >= 19 \/ clock_in_hour < 4
             THEN [standard_hours |-> 0, enhanced_hours |-> total_hours,
                   supervisor_hours |-> 0]
             ELSE [standard_hours |-> total_hours, enhanced_hours |-> 0,
                   supervisor_hours |-> 0]

\* one iteration of the loop of TimeTrackingService.calculate_staff_summary
\* on the dict built so far: a StaffSummary is constructed for a new
\* employee, then the summary's attributes are assigned, which a frozen
\* dataclass refuses
service_add_entry(staff_summaries, entry) ==
    LET created == dataclass_init(StaffSummaryFields,
                       [employee_name |-> entry.employee, total_hours |-> 0,
                        total_shifts |-> 0, standard_hours |-> 0,
                        enhanced_hours |-> 0, supervisor_hours |-> 0])
    IN  IF entry.employee \notin DOMAIN staff_summaries /\ created.raised
        THEN created
        ELSE Raises("FrozenInstanceError")

\* TimeTrackingService.calculate_staff_summary
RECURSIVE service_calculate_staff_summary(_)
service_calculate_staff_summary(entries) ==
    IF entries = << >> THEN Returns(<< >>)
    ELSE LET before == service_calculate_staff_summary(SubSeq(entries, 1, Len(entries) - 1))
         IN  IF before.raised THEN before
             ELSE service_add_entry(before.value, entries[Len(entries)])

\* TimeTrackingService.calculate_overall_summary.  The constructor ends
\* both branches and decides on the keyword names alone, so the totals
\* handed to it after the loop are not computed here.
calculate_overall_summary(entries) ==
    IF entries = << >>
    THEN dataclass_init(OverallSummaryFields,
             [total_hours |-> 0, total_shifts |-> 0, unique_employees |-> 0,
              staff_summary |-> << >>])
    ELSE LET staff_summaries == service_calculate_staff_summary(entries)
         IN  IF staff_summaries.raised THEN staff_summaries
             ELSE dataclass_init(OverallSummaryFields,
                      [total_hours |-> 0, total_shifts |-> 0,
                       unique_employees |-> Cardinality(DOMAIN staff_summaries.value),
                       staff_summary |-> staff_summaries.value])

InitOverall ==
    /\ arg \in SummaryLists
    /\ val = None
    /\ pc = "call"
    /\ store = << >>
    /\ nextId = 1
    /\ now = 0
    /\ ret = None

CalculateOverallSummary ==
    /\ pc = "call"
    /\ val' = Some(calculate_overall_summary(arg))
    /\ pc' = "done"
    /\ UNCHANGED <<arg, store, nextId, now, ret>>

NextOverall == CalculateOverallSummary

SpecOverall == InitOverall /\ [][NextOverall]_vars

\* the float sum of one field of calculate_time_split over the entries
\* stored under this name
TimeSplitSumOf(entries, name, field) ==
    FloatSum([i \in DOMAIN entries |->
                 IF entries[i].employee = name
                 THEN calculate_time_split(entries[i])[field] ELSE 0])

\* C23: calculate_overall_summary never raises for a list of valid time
\* entries: for the empty list it returns total_hours 0, total_shifts 0,
\* unique_employees 0 and no staff summaries; for a non-empty list it
\* returns per-employee summaries whose hours are the sums of
\* calculate_time_split over that employee's entries and whose total_shifts
\* is that employee's entry count.
C23_OverallSummaryReturned ==
    Returned =>
        /\ ~val[1].raised
        /\ arg = << >> =>
              /\ val[1].value.total_hours = 0
              /\ val[1].value.total_shifts = 0
              /\ val[1].value.unique_employees = 0
              /\ val[1].value.staff_summaries = << >>
        /\ \A i \in DOMAIN arg :
            LET summary == val[1].value.staff_summaries[arg[i].employee]
            IN  /\ summary.total_shifts = ShiftsOf(arg, arg[i].employee)
                /\ \A f \in Fields : summary[f] = TimeSplitSumOf(arg, arg[i].employee, f)

----------------------------------------------------------------------------
(* The single anchored window of split_shift_by_rate against the true time
   in local [19:00, 04:00), checked under SpecSplit *)

\* C24: for every closed non-supervisor shift of at most 15 hours, whatever
\* its local start time, Enhanced equals exactly the time of the shift
\* falling in local [19:00, 04:00).
C24_ExactUpTo15Hours ==
    (Returned /\ IsClosed /\ ~arg.is_supervisor
        /\ ArgOut > ArgIn /\ ArgOut - ArgIn <= Hours(15)) =>
        Split.Enhanced = round2(TimeInEnhancedHours(ArgIn, ArgOut))

C24_Witness ==
    /\ Returned /\ IsClosed /\ ~arg.is_supervisor
    /\ hour(LocalIn) = 3 /\ ArgOut - ArgIn = Hours(15)
    /\ Split.Enhanced > 0 /\ Split.Enhanced < 100
    /\ Split.Enhanced = round2(TimeInEnhancedHours(ArgIn, ArgOut))

\* C25: for every closed non-supervisor shift of any duration, Enhanced
\* never exceeds 9 hours and never exceeds the true time of the shift spent
\* in local [19:00, 04:00): the single window can undercount, never
\* overcount.
C25_NeverOvercounts ==
    (Returned /\ IsClosed /\ ~arg.is_supervisor) =>
        /\ Split.Enhanced <= 900
        /\ Split.Enhanced <= round2(TimeInEnhancedHours(ArgIn, ArgOut))

C25_Witness ==
    /\ Returned /\ IsClosed /\ ~arg.is_supervisor
    /\ ArgOut - ArgIn > Hours(24)
    /\ Split.Enhanced = 900
    /\ Split.Enhanced < round2(TimeInEnhancedHours(ArgIn, ArgOut))

----------------------------------------------------------------------------
(* A shift entered through add_shift_manually, read back from the store *)

\* the split of an entered local interval against the local 19:00-04:00
\* window
EnteredSplit(request) ==
    IF request.length = None THEN ZeroSplit
    ELSE rate_split(request.clock_in, request.clock_in + request.length[1])

\* C26: for a shift added through add_shift_manually with local wall-clock
\* times, the stored instants convert back (+ 1h) to the entered local
\* times, so the split of the stored record equals the split of the entered
\* local interval against the local 19:00-04:00 window (entered 18:00-20:00
\* local yields 1h Standard and 1h Enhanced).
C26_EnteredLocalTimesKept ==
    Succeeded("add_shift_manually") =>
        LET row == store[nextId - 1]
        IN  /\ get_bst_time(row.clock_in) = arg.add.clock_in
            /\ row.clock_out # None =>
                  get_bst_time(row.clock_out[1]) = ManualClockOut(arg.add)[1]
            /\ row.pay_rate_type # "Supervisor" =>
                  split_shift_by_rate(row.clock_in, row.clock_out, FALSE)
                      = EnteredSplit(arg.add)

----------------------------------------------------------------------------
(* TimeTrackingService.calculate_time_split beside split_shift_by_rate on
   one time entry *)

MaxEntryStartHours == 24
MaxEntryShiftHours == 6

\* valid time entries: open, or closed after the clock-in
ValidTimeEntries ==
    {[employee |-> <<"a">>, clock_in |-> t,
      clock_out |-> IF n = 0 THEN None ELSE Some(t + n), pay_rate_type |-> p] :
        t \in 0 .. Hours(MaxEntryStartHours),
        n \in 0 .. Hours(MaxEntryShiftHours),
        p \in PayRateType}

InitBoth ==
    /\ arg \in ValidTimeEntries
    /\ val = None
    /\ pc = "call"
    /\ store = << >>
    /\ nextId = 1
    /\ now = 0
    /\ ret = None

SplitBoth ==
    /\ pc = "call"
    /\ val' = Some([service |-> calculate_time_split(arg),
                    export |-> split_shift_by_rate(arg.clock_in, arg.clock_out,
                                                   arg.pay_rate_type = "Supervisor")])
    /\ pc' = "done"
    /\ UNCHANGED <<arg, store, nextId, now, ret>>

NextBoth == SplitBoth

SpecBoth == InitBoth /\ [][NextBoth]_vars

\* C27: for every time entry, open or closed, supervisor or not, the
\* service's TimeSplit has the same Standard, Enhanced and Supervisor hours
\* as split_shift_by_rate(clock_in, clock_out, pay_rate_type == Supervisor),
\* including shifts that cross the local 19:00 or 04:00 boundary.
C27_ServiceAgreesWithExport ==
    Returned =>
        /\ val[1].service.standard_hours = from_hundredths(val[1].export.Standard)
        /\ val[1].service.enhanced_hours = from_hundredths(val[1].export.Enhanced)
        /\ val[1].service.supervisor_hours = from_hundredths(val[1].export.Supervisor)

----------------------------------------------------------------------------
(* Open shifts in the store after sequential service operations *)

\* C28: after any sequence of service operations executed one at a time
\* (clock_in, clock_out, add_shift_manually with or without a clock-out,
\* edit_shift, delete_entry), no employee, names compared
\* case-insensitively, has more than one open shift in the store.
C28_OneOpenShiftPerEmployee ==
    \A i, j \in DOMAIN store :
        (/\ store[i].clock_out = None
         /\ store[j].clock_out = None
         /\ lower(store[i].employee) = lower(store[j].employee)) => i = j

----------------------------------------------------------------------------
(* export_functions.py: get_hierarchical_staff_shift_data *)

\* the code point of a character
ord(c) == IF c = " " THEN 32 ELSE IF c = "A" THEN 65 ELSE IF c = "a" THEN 97 ELSE 98

\* s < t for strings
RECURSIVE str_lt(_, _)
str_lt(s, t) ==
    IF t = << >> THEN FALSE
    ELSE IF s = << >> THEN TRUE
    ELSE IF ord(Head(s)) # ord(Head(t)) THEN ord(Head(s)) < ord(Head(t))
    ELSE str_lt(Tail(s), Tail(t))

\* key(e1) <= key(e2) for the key (e[1].strip().lower(), e[2])
key_le(e1, e2) ==
    LET n1 == lower(strip(e1.employee))
        n2 == lower(strip(e2.employee))
    IN  IF n1 = n2 THEN e1.clock_in <= e2.clock_in ELSE str_lt(n1, n2)

\* sorted(entries, key=...): stable, an entry goes after the entries whose
\* key is not greater
RECURSIVE sorted(_)
sorted(entries) ==
    IF entries = << >> THEN << >>
    ELSE LET before == sorted(SubSeq(entries, 1, Len(entries) - 1))
             entry == entries[Len(entries)]
             k == Cardinality({i \in DOMAIN before : key_le(before[i], entry)})
         IN  SubSeq(before, 1, k) \o <<entry>> \o SubSeq(before, k + 1, Len(before))

\* the staff summary row; an empty cell is None
totals_row(employee, data) ==
    [kind |-> "totals", employee |-> employee,
     Standard |-> Some(data.Standard), Enhanced |-> Some(data.Enhanced),
     Supervisor |-> Some(data.Supervisor), total_hours |-> Some(data.total_hours),
     total_shifts |-> Some(data.total_shifts)]

\* the row of one shift
shift_row(employee, entry) ==
    LET split == entry_split(entry)
    IN  [kind |-> "shift", employee |-> employee,
         Standard |-> Some(split.Standard), Enhanced |-> Some(split.Enhanced),
         Supervisor |-> Some(split.Supervisor), total_hours |-> Some(sum_split(split)),
         total_shifts |-> None]

blank_row ==
    [kind |-> "blank", employee |-> << >>, Standard |-> None, Enhanced |-> None,
     Supervisor |-> None, total_hours |-> None, total_shifts |-> None]

\* the rows of the shifts listed under an employee, in the sorted order
RECURSIVE shift_rows(_, _)
shift_rows(employee, entries_sorted) ==
    IF entries_sorted = << >> THEN << >>
    ELSE LET entry == Head(entries_sorted)
             rest == shift_rows(employee, Tail(entries_sorted))
         IN  IF lower(strip(entry.employee)) = lower(strip(employee))
             THEN <<shift_row(employee, entry)>> \o rest
             ELSE rest

\* the rows appended for the first n employees of the staff summary
RECURSIVE hierarchical_rows(_, _, _)
hierarchical_rows(staff_summary, entries_sorted, n) ==
    IF n = 0 THEN << >>
    ELSE LET employee == staff_summary.keys[n]
         IN  hierarchical_rows(staff_summary, entries_sorted, n - 1)
             \o <<totals_row(employee, staff_summary.get[employee])>>
             \o shift_rows(employee, entries_sorted)
             \o <<blank_row>>

get_hierarchical_staff_shift_data(entries) ==
    LET staff_summary == calculate_staff_summary(entries)
    IN  hierarchical_rows(staff_summary, sorted(entries), Len(staff_summary.keys))

MaxListed == 2
ListedNames == {<<"a">>, <<"A">>, <<"a", " ">>, <<"b">>}
ListedClockIns == {SummaryClockIn - 1, SummaryClockIn}
ListedEntries ==
    [employee : ListedNames, clock_in : ListedClockIns,
     clock_out : {None, Some(SummaryClockIn + 2)},
     pay_rate_type : {"Standard", "Supervisor"}]
ListedLists == UNION {[1 .. n -> ListedEntries] : n \in 0 .. MaxListed}

InitListing ==
    /\ arg \in ListedLists
    /\ val = None
    /\ pc = "call"
    /\ store = << >>
    /\ nextId = 1
    /\ now = 0
    /\ ret = None

GetHierarchicalData ==
    /\ pc = "call"
    /\ val' = Some(get_hierarchical_staff_shift_data(arg))
    /\ pc' = "done"
    /\ UNCHANGED <<arg, store, nextId, now, ret>>

NextListing == GetHierarchicalData

SpecListing == InitListing /\ [][NextListing]_vars

\* the indices of the shift rows between the TOTALS row at i and the next
\* blank row
RowsBeneath(rows, i) ==
    {j \in DOMAIN rows :
        /\ j > i
        /\ rows[j].kind = "shift"
        /\ \A k \in i + 1 .. j : rows[k].kind = "shift"}

\* the hundredths of hours of one column added up over a set of rows
RECURSIVE HundredthsOver(_, _, _)
HundredthsOver(rows, indices, column) ==
    IF indices = {} THEN 0
    ELSE LET j == CHOOSE x \in indices : TRUE
         IN  to_hundredths(rows[j][column][1])
             + HundredthsOver(rows, indices \ {j}, column)

\* C29: in the hierarchical listing, the shift rows beneath an employee's
\* TOTALS row are exactly the shifts counted in that row: their number
\* equals the row's Total Shifts and their Standard, Enhanced and
\* Supervisor hours sum to the row's totals, for every input including
\* names that differ only by letter case or surrounding whitespace.
C29_RowsMatchTotals ==
    Returned =>
        \A i \in DOMAIN val[1] : val[1][i].kind = "totals" =>
            /\ Cardinality(RowsBeneath(val[1], i)) = val[1][i].total_shifts[1]
            /\ \A b \in Buckets :
                  HundredthsOver(val[1], RowsBeneath(val[1], i), b)
                      = to_hundredths(val[1][i][b][1])

----------------------------------------------------------------------------
(* Failed service operations and the store *)

\* the last operation ended without success
Failed(r) == r # None /\ ~r[1].success

\* C30: every service operation that returns success = False (clock_in,
\* clock_out, add_shift_manually, edit_shift of a missing or invalid shift,
\* delete_entry of a missing id) leaves the stored set of shifts exactly as
\* it was before the call; a repository statement that raises after issuing
\* its write is rolled back.
C30_FailureLeavesStore == [][Failed(ret') => store' = store]_vars

\* a clock_out whose UPDATE was issued and then refused, the shift still open
C30_Witness ==
    /\ Failed(ret)
    /\ ret[1].op = "clock_out"
    /\ ret[1].msg = "Error clocking out"
    /\ \E i \in DOMAIN store : store[i].clock_out = None /\ store[i].clock_in >= now

====
